---- MODULE Spec2Model ----
(***************************************************************************)
(* Verification model of slide-starter (Google Apps Script).              *)
(*                                                                         *)
(*  - SpecPaginate : createPaginatedTableSlides of src/src/sls_apps.js,    *)
(*                   one step per iteration of its while loop.            *)
(*  - SpecPSI      : runPSITests of the PageSpeed Insights runner          *)
(*                   (src/unnamed/part_007), one step per statement group. *)
(***************************************************************************)
EXTENDS Integers, Sequences, FiniteSets, TLC

VARIABLES
    \* ---- createPaginatedTableSlides (sls_apps.js) ----
    input,              \* the values array as the caller passed it (history)
    values,             \* the caller's values array, mutated by shift/unshift
    headerRow,          \* const headerRow = values.shift()
    page,               \* let page = []
    currentPageHeight,  \* let currentPageHeight = 0
    pages,              \* the values argument of every createTableSlide call
    pc,                 \* position: "call", "loop" or "done"
    \* ---- runPSITests (PageSpeed Insights runner) ----
    psiApiKey,          \* document property PSI_API_KEY
    includeCo2,         \* document property INCLUDE_CO2EQ
    greenCheck,         \* what the green-hosting lookup answers in this run
    urlSettings,        \* rows 2.. of the sheet 'Performance'
    sheet,              \* rows of the sheet 'Performance Results'
    requests,           \* the requests handed to UrlFetchApp.fetchAll
    responses,          \* const responses = submitTests(urlSettings)
    idx,                \* let i of the for loop over responses
    alerts,             \* texts shown with SpreadsheetApp.getUi().alert
    thrown,             \* the exception that ended the run, or "none"
    allResults,         \* crux_data and origin_fallback of the object that
                        \* parseResults returned last
    rowsBefore,         \* sheet.getLastRow() when the run started (history)
    psiPc,              \* position: "start", "fetched", "loop", "done", "threw"
    \* ---- getTemplateLayoutId (sls_core.js) ----
    layouts,            \* Slides.Presentations.get(presentationId).layouts
    LAYOUT_NAME,        \* document property LAYOUT_NAME
    layoutName,         \* the layoutName argument of the call
    layoutId,           \* the objectId the call returned
    lyPc,               \* position: "call", "returned" or "threw"
    \* ---- helpers.js and truncateUrl: functions of one string ----
    argument,           \* the string the function was called with
    called,             \* the function that was called, or "none"
    returned,           \* the tagged value the call returned
    raised,             \* the error the call threw, or "none"
    evaluated,          \* the source texts handed to new Function
    \* ---- customDataInjection (sls_core.js) ----
    dictionarySheet,    \* the rows of the dictionary sheet, header first
    dictionary,         \* const dictionary = ...offset(1, 0).getValues()
    entry,              \* position of the for-of loop over dictionary
    replaced,           \* the calls presentation.replaceAllText(key, value)
    djPc,               \* position: "call", "loop" or "done"
    \* ---- loadConfiguration (sls_core.js, sls_web.js) ----
    variant,            \* the file the function is taken from: "core", "web"
    configRange,        \* what getRangeByName finds for the range name
    properties,         \* the document properties
    propertiesBefore,   \* the document properties at the call (history)
    configRow,          \* position of the for-of loop over values
    configError,        \* the error loadConfiguration threw, or "none"
    cfgPc,              \* position: "call", "loop", "done" or "threw"
    \* ---- retrieveImage (sls_ux.js) ----
    folder,             \* the files of the images folder, in iteration order
    criteriaId,         \* the criteria the image is looked up for
    files,              \* what is left in the iterator of folder.searchFiles
    matches,            \* everything the search returned (history)
    file,               \* let file = null
    toasts,             \* the texts shown as toasts on the spreadsheet
    background,         \* the background set on the cell, or "unset"
    imgPc,              \* position: "call", "searched", "picked", "done"
    \* ---- createDeckFromDatasource (sls_apps.js) ----
    SLIDES_REQUESTS,    \* document property SLIDES_REQUESTS
    auditSheets,        \* per section, the table pages its sheet gives
    sheetIdx,           \* position of the for-of loop over auditSheets
    pagesDone,          \* table slides created for the current section
    tables,             \* object ids of the tables created in this execution
    tableCount,         \* tables created in all executions so far
    applied,            \* the requests handed to batchUpdate, or "nothing"
    requestsBefore,     \* SLIDES_REQUESTS when the execution began (history)
    executions,         \* executions started so far
    deckPc              \* position: "start", "sections", "done", "failed"

pagVars == <<input, values, headerRow, page, currentPageHeight, pages, pc>>

psiVars == <<psiApiKey, includeCo2, greenCheck, urlSettings, sheet, requests,
             responses, idx, alerts, thrown, allResults, rowsBefore, psiPc>>

lyVars == <<layouts, LAYOUT_NAME, layoutName, layoutId, lyPc>>

hVars == <<argument, called, returned, raised, evaluated>>

djVars == <<dictionarySheet, dictionary, entry, replaced, djPc>>

cfgVars == <<variant, configRange, properties, propertiesBefore, configRow,
             configError, cfgPc>>

imgVars == <<folder, criteriaId, files, matches, file, toasts, background,
             imgPc>>

deckVars == <<SLIDES_REQUESTS, auditSheets, sheetIdx, pagesDone, tables,
              tableCount, applied, requestsBefore, executions, deckPc>>

\* what the steps of one function leave alone: the state of the others
PagFrame == <<psiVars, lyVars, hVars, djVars, cfgVars, imgVars, deckVars>>
PsiFrame == <<pagVars, lyVars, hVars, djVars, cfgVars, imgVars, deckVars>>
LyFrame == <<pagVars, psiVars, hVars, djVars, cfgVars, imgVars, deckVars>>
HFrame == <<pagVars, psiVars, lyVars, djVars, cfgVars, imgVars, deckVars>>
DjFrame == <<pagVars, psiVars, lyVars, hVars, cfgVars, imgVars, deckVars>>
CfgFrame == <<pagVars, psiVars, lyVars, hVars, djVars, imgVars, deckVars>>
ImgFrame == <<pagVars, psiVars, lyVars, hVars, djVars, cfgVars, deckVars>>
DeckFrame == <<pagVars, psiVars, lyVars, hVars, djVars, cfgVars, imgVars>>

vars == <<pagVars, psiVars, lyVars, hVars, djVars, cfgVars, imgVars, deckVars>>

----------------------------------------------------------------------------
(* Bounds                                                                  *)

\* largest number of data rows after the header row
MaxRows == 5

\* largest number of URL settings in the sheet 'Performance'
MaxUrls == 2

\* currentPageHeight is only ever compared with MAX_PAGE_HEIGHT; the model
\* stops counting above this value so that a loop that never leaves a row
\* keeps a finite state space
HeightCap == 400

\* at most this many layouts in the presentation
MaxLayouts == 3

\* longest URL handed to truncateUrl
MaxUrlLength == 70

\* most rows below the header of the dictionary sheet
MaxEntries == 3

\* most rows of the configuration range
MaxConfigRows == 17

\* most files in the images folder
MaxFiles == 3

\* most sections in DATA_SOURCE_SHEET
MaxSections == 2

\* most executions of createDeckFromDatasource on one spreadsheet
MaxExecutions == 2

----------------------------------------------------------------------------
(* JavaScript numbers                                                      *)

\* the result of an arithmetic operation on undefined
NaN == -1

\* a / b rounded up, Math.ceil(a / b) for a >= 0, b > 0
CeilDiv_Floor(a, b) == a \div b

CeilDiv(a, b) == (a + b - 1) \div b

\* a > b of JavaScript: false as soon as one side is NaN
JsGreater(a, b) == a # NaN /\ b # NaN /\ a > b

\* a + b of JavaScript numbers
JsAdd(a, b) == IF a = NaN \/ b = NaN THEN NaN ELSE a + b

\* null where a string is expected; a string itself is <<"str", chunks>>
NullString == <<"null", <<>>>>

----------------------------------------------------------------------------
(* sls_apps.js: constants                                                  *)

COLUMN_WIDTH == <<50, 50, 75, 250, 75, 180>>
MAX_PAGE_HEIGHT == 175
LINE_HEIGHT == 10

\* A table cell is represented by the length of its text, the only attribute
\* of a cell the pagination reads; a row is the sequence of its cells.
\* calculateCellRowHeight: columnIndex is 0-based; a column without a
\* configured width reads COLUMN_WIDTH[columnIndex] as undefined, and the
\* division yields NaN.
calculateCellRowHeight_NoNaN(lengthText, columnIndex, fontSize) ==
    IF columnIndex + 1 \in DOMAIN COLUMN_WIDTH
    THEN CeilDiv(lengthText * fontSize, COLUMN_WIDTH[columnIndex + 1]) * fontSize
    ELSE CeilDiv(lengthText * fontSize, 1) * fontSize

calculateCellRowHeight(lengthText, columnIndex, fontSize) ==
    IF columnIndex + 1 \in DOMAIN COLUMN_WIDTH
    THEN CeilDiv(lengthText * fontSize, COLUMN_WIDTH[columnIndex + 1]) * fontSize
    ELSE NaN

\* the for loop of calculateRowHeight over the cells j .. row.length - 1,
\* entered with currentRowHeight = acc
RECURSIVE RowHeightFrom(_, _, _)
RowHeightFrom(row, j, acc) ==
    IF j >= Len(row) THEN acc
    ELSE LET currentColHeight ==
                 calculateCellRowHeight(row[j + 1], j, LINE_HEIGHT)
         IN RowHeightFrom(row, j + 1,
                IF JsGreater(currentColHeight, acc)
                THEN currentColHeight ELSE acc)

calculateRowHeight(row) == RowHeightFrom(row, 0, 0)

----------------------------------------------------------------------------
(* sls_apps.js: createPaginatedTableSlides                                 *)

\* currentPageHeight > MAX_PAGE_HEIGHT
Overflows_Late(h) == JsGreater(h, 2 * MAX_PAGE_HEIGHT)

Overflows(h) == JsGreater(h, MAX_PAGE_HEIGHT)

\* values.unshift(currentRow)
ReturnRow_Dropped(rest, currentRow) == rest

ReturnRow(rest, currentRow) == <<currentRow>> \o rest

\* pageFull = page.length > 0
PageFullOnOverflow_Always(p) == TRUE

PageFullOnOverflow(p) == Len(p) > 0

\* page.unshift(headerRow): the array handed to createTableSlide
FlushPage(header, p) == <<header>> \o p

\* the running height, no longer counted above HeightCap
Sat(h) == IF h > HeightCap THEN HeightCap ELSE h

\* The rows the model draws tables from (text length of each cell), given
\* with six cells.  Heights by calculateRowHeight: 40, 60, 50 and 180.
Row40 == <<3, 5, 10, 100, 8, 20>>
Row60 == <<30, 2, 4, 20, 0, 18>>
Row50 == <<1, 21, 7, 0, 7, 18>>
Row180 == <<4, 4, 6, 450, 6, 10>>
TableHeader == <<2, 4, 6, 14, 6, 8>>

RowChoices == {Row40, Row60, Row50, Row180}

\* getValues() returns a rectangular range: the header and every data row
\* have the number of columns of the sheet, which need not be the number of
\* configured column widths.
SheetColumns == {5, 6, 7}

\* a six-cell row as it reads in a sheet of w columns: cut after w cells, or
\* continued with a long text in each further column
FitRow(r, w) == [j \in 1..w |-> IF j <= Len(r) THEN r[j] ELSE 400]

RECURSIVE SeqsUpTo(_, _)
SeqsUpTo(S, n) ==
    IF n = 0 THEN {<<>>}
    ELSE LET shorter == SeqsUpTo(S, n - 1)
         IN shorter \cup {Append(s, x) : s \in {t \in shorter : Len(t) = n - 1}, x \in S}

\* the PageSpeed Insights runner is not running
PsiIdle ==
    /\ psiApiKey = <<>>
    /\ includeCo2 = <<>>
    /\ greenCheck = "grey"
    /\ urlSettings = <<>>
    /\ sheet = <<>>
    /\ requests = <<>>
    /\ responses = <<>>
    /\ idx = 0
    /\ alerts = <<>>
    /\ thrown = "none"
    /\ allResults = [crux_data |-> FALSE, origin_fallback |-> FALSE]
    /\ rowsBefore = 0
    /\ psiPc = "idle"

LyIdle ==
    /\ layouts = <<>>
    /\ LAYOUT_NAME = NullString
    /\ layoutName = NullString
    /\ layoutId = ""
    /\ lyPc = "idle"

HIdle ==
    /\ argument = <<>>
    /\ called = "idle"
    /\ returned = <<"undefined", <<>>>>
    /\ raised = "none"
    /\ evaluated = <<>>

DjIdle ==
    /\ dictionarySheet = <<>>
    /\ dictionary = <<>>
    /\ entry = 0
    /\ replaced = <<>>
    /\ djPc = "idle"

CfgIdle ==
    /\ variant = "none"
    /\ configRange = [found |-> FALSE]
    /\ properties = <<>>
    /\ propertiesBefore = <<>>
    /\ configRow = 0
    /\ configError = "none"
    /\ cfgPc = "idle"

ImgIdle ==
    /\ folder = <<>>
    /\ criteriaId = <<>>
    /\ files = <<>>
    /\ matches = <<>>
    /\ file = <<"null", <<>>>>
    /\ toasts = <<>>
    /\ background = "unset"
    /\ imgPc = "idle"

DeckIdle ==
    /\ SLIDES_REQUESTS = <<"null", <<>>>>
    /\ auditSheets = <<>>
    /\ sheetIdx = 0
    /\ pagesDone = 0
    /\ tables = <<>>
    /\ tableCount = 0
    /\ applied = <<"nothing", <<>>>>
    /\ requestsBefore = <<"null", <<>>>>
    /\ executions = 0
    /\ deckPc = "idle"

PagInit ==
    /\ \E w \in SheetColumns :
          input \in {<<FitRow(TableHeader, w)>> \o d :
                        d \in SeqsUpTo({FitRow(r, w) : r \in RowChoices}, MaxRows)}
    /\ values = input
    /\ headerRow = <<>>
    /\ page = <<>>
    /\ currentPageHeight = 0
    /\ pages = <<>>
    /\ pc = "call"
    /\ PsiIdle
    /\ LyIdle
    /\ HIdle
    /\ DjIdle
    /\ CfgIdle
    /\ ImgIdle
    /\ DeckIdle

\* line 166-169: const headerRow = values.shift(); page = []; ...
ShiftHeader ==
    /\ pc = "call"
    /\ headerRow' = Head(values)
    /\ values' = Tail(values)
    /\ page' = <<>>
    /\ currentPageHeight' = 0
    /\ pc' = "loop"
    /\ UNCHANGED <<input, pages>>
    /\ UNCHANGED PagFrame

\* lines 170-190: one iteration of while (values.length > 0)
LoopIteration ==
    /\ pc = "loop"
    /\ Len(values) > 0
    /\ LET currentRow == Head(values)
           rest == Tail(values)
           h == Sat(JsAdd(currentPageHeight, calculateRowHeight(currentRow)))
           overflow == Overflows(h)
           values1 == IF overflow THEN ReturnRow(rest, currentRow) ELSE rest
           page1 == IF overflow THEN page ELSE Append(page, currentRow)
           pageFull == IF overflow THEN PageFullOnOverflow(page)
                       ELSE Len(rest) = 0
       IN /\ values' = values1
          /\ IF pageFull
             THEN /\ pages' = Append(pages, FlushPage(headerRow, page1))
                  /\ page' = <<>>
                  /\ currentPageHeight' = 0
             ELSE /\ pages' = pages
                  /\ page' = page1
                  /\ currentPageHeight' = h
    /\ UNCHANGED <<input, headerRow, pc>>
    /\ UNCHANGED PagFrame

LoopExit_RowsLeft ==
    /\ pc = "loop"
    /\ Len(values) <= 1
    /\ pc' = "done"
    /\ UNCHANGED <<input, values, headerRow, page, currentPageHeight, pages>>
    /\ UNCHANGED PagFrame

\* line 170: the loop condition fails, the function returns
LoopExit ==
    /\ pc = "loop"
    /\ Len(values) = 0
    /\ pc' = "done"
    /\ UNCHANGED <<input, values, headerRow, page, currentPageHeight, pages>>
    /\ UNCHANGED PagFrame

PagNext == ShiftHeader \/ LoopIteration \/ LoopExit

SpecPaginate == PagInit /\ [][PagNext]_vars

----------------------------------------------------------------------------
(* JavaScript values used by the PageSpeed Insights runner                 *)

\* null and undefined where a number is expected; every number of the model
\* is >= 0
Null == -2
Undefined == -3

\* A string is the sequence of its text chunks, so that concatenation is \o
\* and the empty string is <<>>.  Numbers of the PSI response are fixed-point
\* in hundredths (a score of 0.87 is 87, a percentile of 1500 is 150000).
Hundredths == 100

\* a cell of a sheet row: a string or a number
Str(s) == <<"str", s>>
Num(n) == <<"num", n>>

IsSpace_BlankOnly(c) == c = " "

IsSpace(c) == c \in {" ", "\t", "\n"}

RECURSIVE trimStart(_)
trimStart(s) ==
    IF s # <<>> /\ IsSpace(Head(s)) THEN trimStart(Tail(s)) ELSE s

RECURSIVE trimEnd(_)
trimEnd(s) ==
    IF s # <<>> /\ IsSpace(s[Len(s)])
    THEN trimEnd(SubSeq(s, 1, Len(s) - 1)) ELSE s

\* String.prototype.trim
trim(s) == trimEnd(trimStart(s))

LowerChunk(c) ==
    CASE c = "MOBILE" -> "mobile"
      [] c = "DESKTOP" -> "desktop"
      [] c = "PAGE" -> "page"
      [] c = "NONE" -> "none"
      [] c = "ORIGIN" -> "origin"
      [] OTHER -> c

\* String.prototype.toLowerCase
toLowerCase(s) == [k \in DOMAIN s |-> LowerChunk(s[k])]

\* Array.prototype.toString: the elements joined with ","
RECURSIVE JoinComma(_)
JoinComma(names) ==
    IF names = <<>> THEN <<>>
    ELSE IF Len(names) = 1 THEN <<names[1]>>
    ELSE <<names[1], ",">> \o JoinComma(Tail(names))

\* x * 100 and x / 100 on fixed-point numbers
TimesHundred(x) == x * 100

DivHundred_Skipped(x) == x

DivHundred(x) == x \div 100

\* score < 1 && score != null  (null < 1 is true, undefined < 1 is false)
ScoreFailed_NullFails(score) ==
    score = Null \/ (score >= 0 /\ score < 1 * Hundredths)

ScoreFailed(score) ==
    /\ (score = Null \/ (score >= 0 /\ score < 1 * Hundredths))
    /\ score # Null
    /\ score # Undefined

----------------------------------------------------------------------------
(* part_007 lines 1439-1716: the PageSpeed Insights runner                 *)

\* createResultsMap
createResultsMap ==
    [categories |-> <<"performance">>,
     crux |-> <<"FIRST_CONTENTFUL_PAINT_MS", "LARGEST_CONTENTFUL_PAINT_MS",
                "FIRST_INPUT_DELAY_MS", "CUMULATIVE_LAYOUT_SHIFT_SCORE",
                "INTERACTION_TO_NEXT_PAINT">>,
     metrics |-> <<"server-response-time", "first-contentful-paint",
                   "largest-contentful-paint", "total-blocking-time",
                   "cumulative-layout-shift">>,
     assets |-> <<"total", "script", "image", "stylesheet", "document",
                  "font", "other", "media", "third-party">>]

\* lighthouseResult['audits'][name]
AuditNamed(lighthouseResult, name) ==
    LET as == lighthouseResult.audits
    IN as[CHOOSE k \in DOMAIN as : as[k].id = name]

\* ---- the environment: what the PSI API answers ----

MetricAudit(id, score, value) ==
    [id |-> id, score |-> score, numericValue |-> value]

\* audits in the key order of the JSON object
AuditsA ==
    <<[id |-> "final-screenshot", score |-> Null,
       details |-> [data |-> <<"data:image/jpeg;base64,", "AAAA">>]],
      MetricAudit("server-response-time", 100, 12000),
      MetricAudit("first-contentful-paint", 45, 310050),
      MetricAudit("largest-contentful-paint", 0, 820000),
      MetricAudit("total-blocking-time", 100, 0),
      MetricAudit("cumulative-layout-shift", 98, 2),
      MetricAudit("total-byte-weight", 50, 204800000),
      [id |-> "uses-http2", score |-> Null],
      [id |-> "network-requests", score |-> Undefined]>>

AuditsB ==
    <<MetricAudit("cumulative-layout-shift", 100, 0),
      MetricAudit("total-blocking-time", 99, 5000),
      MetricAudit("largest-contentful-paint", 100, 90000),
      MetricAudit("first-contentful-paint", 100, 80000),
      MetricAudit("server-response-time", 100, 3000),
      MetricAudit("total-byte-weight", 100, 1024000),
      [id |-> "final-screenshot", score |-> Null,
       details |-> [data |-> <<"data:image/jpeg;base64,", "BBBB">>]]>>

LighthouseA ==
    [lighthouseVersion |-> <<"11.0.0">>,
     finalUrl |-> <<"https://", "a.example", "/">>,
     categories |-> [performance |-> [score |-> 87]],
     audits |-> AuditsA]

LighthouseB ==
    [lighthouseVersion |-> <<"12.2.1">>,
     finalUrl |-> <<"https://", "b.example", "/", "shop">>,
     categories |-> [performance |-> [score |-> 100]],
     audits |-> AuditsB]

\* field data for the page, every configured metric present
FieldPage ==
    [id |-> <<"https://a.example/">>,
     overall_category |-> <<"FAST">>,
     metrics |->
        [FIRST_CONTENTFUL_PAINT_MS |-> [percentile |-> 120000],
         LARGEST_CONTENTFUL_PAINT_MS |-> [percentile |-> 210000],
         FIRST_INPUT_DELAY_MS |-> [percentile |-> 1500],
         CUMULATIVE_LAYOUT_SHIFT_SCORE |-> [percentile |-> 150000],
         INTERACTION_TO_NEXT_PAINT |-> [percentile |-> 18000],
         EXPERIMENTAL_TIME_TO_FIRST_BYTE |-> [percentile |-> 40000]]]

\* field data of the origin, two configured metrics present
FieldOrigin ==
    [id |-> <<"https://b.example">>,
     overall_category |-> <<"SLOW">>,
     origin_fallback |-> TRUE,
     metrics |->
        [LARGEST_CONTENTFUL_PAINT_MS |-> [percentile |-> 450000],
         CUMULATIVE_LAYOUT_SHIFT_SCORE |-> [percentile |-> 700]]]

\* no field data
FieldNone == [id |-> <<"https://a.example/">>]

\* no field metrics, yet flagged as origin fallback
FieldFlagOnly == [id |-> <<"https://b.example">>, origin_fallback |-> TRUE]

\* an HTTP response: its status and its body, which is JSON text (given by
\* the value it parses to) or some other text
JsonResponse(code, content) ==
    [net |-> "ok", code |-> code, text |-> <<"json", content>>]

OkPage == JsonResponse(200,
    [lighthouseResult |-> LighthouseA, loadingExperience |-> FieldPage])
OkOrigin == JsonResponse(200,
    [lighthouseResult |-> LighthouseB, loadingExperience |-> FieldOrigin])
OkNoField == JsonResponse(200,
    [lighthouseResult |-> LighthouseA, loadingExperience |-> FieldNone])
OkFlagOnly == JsonResponse(200,
    [lighthouseResult |-> LighthouseB, loadingExperience |-> FieldFlagOnly])
ApiError == JsonResponse(429,
    [error |-> [code |-> 429, message |-> <<"Quota exceeded">>]])
\* an HTTP error whose body is an HTML page
NotJson ==
    [net |-> "ok", code |-> 502,
     text |-> <<"raw", <<"<html>", "502 Bad Gateway", "</html>">>>>]
\* no HTTP response at all: DNS failure, timeout, connection reset
NetFail == [net |-> "fail"]

FetchOutcomes ==
    {OkPage, OkOrigin, OkNoField, OkFlagOnly, ApiError, NotJson, NetFail}

\* JSON.parse: the value, or a SyntaxError
JSONparse(text) ==
    IF text[1] = "json" THEN [ok |-> TRUE, value |-> text[2]]
    ELSE [ok |-> FALSE]

\* ---- the sheet 'Performance Results' ----

appendRow(sh, cells) ==
    Append(sh, [cells |-> cells, note |-> <<>>, background |-> ""])

getLastRow(sh) == Len(sh)

getLastColumn(sh) ==
    LET ws == {Len(sh[r].cells) : r \in DOMAIN sh} \cup {0}
    IN CHOOSE m \in ws : \A x \in ws : x <= m

\* addNote: background on the last row, note on column D of the last row
addNote(sh, note, formatColor) ==
    [sh EXCEPT ![getLastRow(sh)].background = formatColor,
               ![getLastRow(sh)].note = note]

\* lines 1504-1507: the note of an error row
NoteHelp ==
    <<"\n\n", "If this error persists, investigate the cause by running the ",
      "URL manually via ",
      "https://developers.google.com/speed/pagespeed/insights/">>

ErrorNote_NoMessage(message) == NoteHelp

ErrorNote(message) == message \o NoteHelp

\* lines 1495-1503: the cells of an error row
ErrorRowCells(sh, url, label, device, subtitleSummary) ==
    LET placeholderTextArray ==
            [k \in 1..(getLastColumn(sh) - 3) |-> Str(<<"N/A">>)]
    IN <<Str(url), Str(label), Str(device)>> \o placeholderTextArray
          \o <<Str(subtitleSummary)>>

\* ---- part_001: CO2 estimate ----

\* checkGreenHosting: the lookup throws when the service cannot be reached
\* or answers something that is not JSON
checkGreenHosting(url) ==
    IF greenCheck = "fail" THEN [threw |-> "lookup", green |-> FALSE]
    ELSE [threw |-> "none", green |-> (greenCheck = "green")]

\* getCo2eqPerByte: co2.perByte of the co2.js library is left uninterpreted
getCo2eqPerByte(totalBytes, url) ==
    LET g == checkGreenHosting(url)
    IN IF g.threw # "none" THEN [threw |-> g.threw]
       ELSE [threw |-> "none",
             value |-> <<"co2.perByte", totalBytes, g.green>>]

\* ---- parseResults ----

\* lines 1641-1644: the order of the data array
AssembleData_CategoriesFirst(screenshot, crux, categories, metrics, failed, version) ==
    <<Str(screenshot)>> \o categories \o crux \o metrics
        \o <<Str(failed), Str(version)>>

AssembleData(screenshot, crux, categories, metrics, failed, version) ==
    <<Str(screenshot)>> \o crux \o categories \o metrics
        \o <<Str(failed), Str(version)>>

\* lines 1622-1633: the cell of one configured field metric
CruxCell(loadingExperience, metricName) ==
    IF metricName \in DOMAIN loadingExperience.metrics
    THEN LET percentile == loadingExperience.metrics[metricName].percentile
         IN IF metricName = "CUMULATIVE_LAYOUT_SHIFT_SCORE"
            THEN Num(DivHundred(percentile))
            ELSE Num(percentile)
    ELSE Str(<<"N/A">>)

\* lines 1618-1633: the field-experience entries of the data array
RECURSIVE PresentOnly(_, _)
PresentOnly(loadingExperience, names) ==
    IF names = <<>> THEN <<>>
    ELSE (IF Head(names) \in DOMAIN loadingExperience.metrics
          THEN <<CruxCell(loadingExperience, Head(names))>> ELSE <<>>)
            \o PresentOnly(loadingExperience, Tail(names))

CruxEntries_SkipMissing(loadingExperience, names) ==
    IF "metrics" \in DOMAIN loadingExperience
    THEN <<Str(loadingExperience.overall_category)>> \o
         PresentOnly(loadingExperience, names)
    ELSE <<>>

CruxEntries_FillersWithoutData(loadingExperience, names) ==
    IF "metrics" \in DOMAIN loadingExperience
    THEN <<Str(loadingExperience.overall_category)>> \o
         [k \in DOMAIN names |-> CruxCell(loadingExperience, names[k])]
    ELSE <<Str(<<"N/A">>)>> \o [k \in DOMAIN names |-> Str(<<"N/A">>)]

CruxEntries(loadingExperience, names) ==
    IF "metrics" \in DOMAIN loadingExperience
    THEN <<Str(loadingExperience.overall_category)>> \o
         [k \in DOMAIN names |-> CruxCell(loadingExperience, names[k])]
    ELSE <<>>

RECURSIVE SelectFailed(_)
SelectFailed(as) ==
    IF as = <<>> THEN <<>>
    ELSE (IF ScoreFailed(Head(as).score) THEN <<Head(as).id>> ELSE <<>>)
            \o SelectFailed(Tail(as))

\* loadingExperience['origin_fallback'] is truthy
FlagSet(loadingExperience) ==
    /\ "origin_fallback" \in DOMAIN loadingExperience
    /\ loadingExperience.origin_fallback

OriginFallback_Unnested(loadingExperience) == FlagSet(loadingExperience)

\* lines 1634-1638, inside if (loadingExperience['metrics'])
OriginFallback(loadingExperience) ==
    /\ "metrics" \in DOMAIN loadingExperience
    /\ FlagSet(loadingExperience)

parseResults(content, responseMap) ==
    LET lighthouseResult == content.lighthouseResult
        loadingExperience == content.loadingExperience
        version == lighthouseResult.lighthouseVersion
        screenshot ==
            AuditNamed(lighthouseResult, "final-screenshot").details.data
        categories ==
            [k \in DOMAIN responseMap.categories |->
                Num(TimesHundred(
                    lighthouseResult.categories[responseMap.categories[k]].score))]
        metrics ==
            [k \in DOMAIN responseMap.metrics |->
                Num(AuditNamed(lighthouseResult,
                               responseMap.metrics[k]).numericValue)]
        failedAuditNames == SelectFailed(lighthouseResult.audits)
        hasMetrics == "metrics" \in DOMAIN loadingExperience
        crux == CruxEntries(loadingExperience, responseMap.crux)
        origin_fallback == OriginFallback(loadingExperience)
        data == AssembleData(screenshot, crux, categories, metrics,
                             JoinComma(failedAuditNames), version)
        \* a non-empty string is truthy
        shouldIncludeCo2 == includeCo2 # <<>>
        co2eq == getCo2eqPerByte(
                     AuditNamed(lighthouseResult, "total-byte-weight").numericValue,
                     lighthouseResult.finalUrl)
    IN IF shouldIncludeCo2 /\ co2eq.threw # "none"
       THEN [threw |-> co2eq.threw]
       ELSE [threw |-> "none",
             data |-> IF shouldIncludeCo2
                      THEN Append(data, Num(co2eq.value)) ELSE data,
             crux_data |-> hasMetrics,
             origin_fallback |-> origin_fallback]

\* ---- runPSITests ----

\* the request of one URL setting (submitTests, lines 1562-1567)
RequestFor(setting, key) ==
    [url |-> <<"https://www.googleapis.com/pagespeedonline/v5/runPagespeed?",
               "&category=BEST_PRACTICES", "&category=PERFORMANCE",
               "&strategy=">> \o setting[3] \o <<"&url=">> \o setting[1]
               \o <<"&key=">> \o key,
     muteHttpExceptions |-> TRUE]

Today == <<"2026-11-01">>

\* the document properties and sheets a run can start from
KeyChoices == {<<"A", "I", "z", "a">>, <<" ", "\t">>, <<>>}

Co2Choices == {<<>>, <<"TRUE">>}

SettingHome == <<<<"https://a.example/">>, <<"Home">>, <<"MOBILE">>>>
SettingShop == <<<<"https://b.example/shop">>, <<"Shop">>, <<"DESKTOP">>>>

SettingChoices == {SettingHome, SettingShop}

\* the header row of 'Performance Results'
ResultsHeader(w) == [cells |-> [k \in 1..w |-> Str(<<"column">>)],
                     note |-> <<>>, background |-> ""]

\* rows left in the sheet by an earlier run
StaleRows ==
    <<[cells |-> <<Str(<<"https://old.example/">>), Str(<<"Old">>),
                   Str(<<"MOBILE">>)>>
                 \o [k \in 1..18 |-> Str(<<"N/A">>)] \o <<Str(<<"PSI Error">>)>>,
       note |-> ErrorNote(<<"Old failure">>), background |-> "#fdf6f6"],
      [cells |-> <<Str(<<"https://old.example/">>), Str(<<"Old">>),
                   Str(<<"DESKTOP">>), Str(<<"2026-10-01">>), Str(<<"NONE">>)>>,
       note |-> <<>>, background |-> ""]>>

SheetChoices ==
    {<<ResultsHeader(21)>>, <<ResultsHeader(22)>>,
     <<ResultsHeader(21)>> \o StaleRows}

PagIdle ==
    /\ input = <<>>
    /\ values = <<>>
    /\ headerRow = <<>>
    /\ page = <<>>
    /\ currentPageHeight = 0
    /\ pages = <<>>
    /\ pc = "idle"

PsiInit ==
    /\ psiApiKey \in KeyChoices
    /\ includeCo2 \in Co2Choices
    /\ greenCheck \in (IF includeCo2 = <<>> THEN {"grey"}
                       ELSE {"green", "grey", "fail"})
    /\ urlSettings \in (SeqsUpTo(SettingChoices, MaxUrls) \ {<<>>})
    /\ sheet \in SheetChoices
    /\ requests = <<>>
    /\ responses = <<>>
    /\ idx = 0
    /\ alerts = <<>>
    /\ thrown = "none"
    /\ allResults = [crux_data |-> FALSE, origin_fallback |-> FALSE]
    /\ rowsBefore = getLastRow(sheet)
    /\ psiPc = "start"
    /\ PagIdle
    /\ LyIdle
    /\ HIdle
    /\ DjIdle
    /\ CfgIdle
    /\ ImgIdle
    /\ DeckIdle

\* lines 1476-1477: getURLSettings, then submitTests with getPsiApiKey and
\* UrlFetchApp.fetchAll.  muteHttpExceptions makes fetchAll return the
\* responses that carry an HTTP error status; a request that gets no
\* response makes fetchAll throw.
SubmitTests ==
    /\ psiPc = "start"
    /\ IF trim(psiApiKey) = <<>>
       THEN /\ alerts' = Append(alerts,
                            "Please enter your PSI API Key in Configuration")
            /\ thrown' = "Error: The PSI API key must be set to use this tool."
            /\ psiPc' = "threw"
            /\ UNCHANGED <<requests, responses>>
       ELSE \E outcome \in [DOMAIN urlSettings -> FetchOutcomes] :
            /\ requests' = [k \in DOMAIN urlSettings |->
                               RequestFor(urlSettings[k], psiApiKey)]
            /\ IF \E k \in DOMAIN outcome : outcome[k].net = "fail"
               THEN /\ thrown' = "Exception: fetchAll"
                    /\ psiPc' = "threw"
                    /\ responses' = responses
               ELSE /\ responses' = outcome
                    /\ psiPc' = "fetched"
                    /\ thrown' = thrown
            /\ alerts' = alerts
    /\ UNCHANGED <<psiApiKey, includeCo2, greenCheck, urlSettings, sheet, idx,
                   allResults, rowsBefore>>
    /\ UNCHANGED PsiFrame

DeleteOldRows_BeforeFetch ==
    \/ /\ psiPc = "fetched"
       /\ sheet' = sheet
       /\ idx' = 0
       /\ psiPc' = "loop"
       /\ UNCHANGED <<psiApiKey, includeCo2, greenCheck, urlSettings, requests,
                      responses, alerts, thrown, allResults,
                   rowsBefore>>
       /\ UNCHANGED PsiFrame
    \/ /\ psiPc = "start"
       /\ getLastRow(sheet) > 1
       /\ sheet' = <<sheet[1]>>
       /\ UNCHANGED <<psiApiKey, includeCo2, greenCheck, urlSettings, requests,
                      responses, idx, alerts, thrown, allResults, rowsBefore,
                      psiPc>>
       /\ UNCHANGED PsiFrame

DeleteOldRows_KeepRows ==
    /\ psiPc = "fetched"
    /\ sheet' = sheet
    /\ idx' = 0
    /\ psiPc' = "loop"
    /\ UNCHANGED <<psiApiKey, includeCo2, greenCheck, urlSettings, requests,
                   responses, alerts, thrown, allResults, rowsBefore>>
    /\ UNCHANGED PsiFrame

\* lines 1478-1483: the rows of the previous run are deleted
DeleteOldRows ==
    /\ psiPc = "fetched"
    /\ sheet' = IF getLastRow(sheet) > 1 THEN <<sheet[1]>> ELSE sheet
    /\ idx' = 0
    /\ psiPc' = "loop"
    /\ UNCHANGED <<psiApiKey, includeCo2, greenCheck, urlSettings, requests,
                   responses, alerts, thrown, allResults,
                   rowsBefore>>
    /\ UNCHANGED PsiFrame

\* lines 1486-1525: one iteration of the loop over the responses
ProcessResponse ==
    /\ psiPc = "loop"
    /\ idx < Len(responses)
    /\ LET url == urlSettings[idx + 1][1]
           label == urlSettings[idx + 1][2]
           device == urlSettings[idx + 1][3]
           parsed == JSONparse(responses[idx + 1].text)
       IN IF ~parsed.ok
          THEN /\ thrown' = "SyntaxError"
               /\ psiPc' = "threw"
               /\ UNCHANGED <<sheet, idx, allResults>>
          ELSE IF "error" \in DOMAIN parsed.value
          THEN /\ sheet' = addNote(
                              appendRow(sheet,
                                  ErrorRowCells(sheet, url, label, device,
                                                <<"PSI Error">>)),
                              ErrorNote(parsed.value.error.message),
                              "#fdf6f6")
               /\ idx' = idx + 1
               /\ UNCHANGED <<thrown, psiPc, allResults>>
          ELSE LET results == parseResults(parsed.value, createResultsMap)
               IN IF results.threw # "none"
                  THEN /\ thrown' = results.threw
                       /\ psiPc' = "threw"
                       /\ UNCHANGED <<sheet, idx, allResults>>
                  ELSE LET cruxDataType ==
                               IF ~results.crux_data THEN <<"NONE">>
                               ELSE IF results.origin_fallback THEN <<"ORIGIN">>
                               ELSE <<"PAGE">>
                           subtitleSummary ==
                               toLowerCase(device) \o <<" - ">>
                                   \o toLowerCase(cruxDataType)
                       IN /\ sheet' = appendRow(sheet,
                                  <<Str(url), Str(label), Str(device),
                                    Str(Today), Str(cruxDataType)>>
                                  \o results.data \o <<Str(subtitleSummary)>>)
                          /\ idx' = idx + 1
                          /\ allResults' =
                                [crux_data |-> results.crux_data,
                                 origin_fallback |-> results.origin_fallback]
                          /\ UNCHANGED <<thrown, psiPc>>
    /\ UNCHANGED <<psiApiKey, includeCo2, greenCheck, urlSettings, requests,
                   responses, alerts, rowsBefore>>
    /\ UNCHANGED PsiFrame

\* line 1486: i = responses.length, runPSITests returns
LoopDone ==
    /\ psiPc = "loop"
    /\ idx = Len(responses)
    /\ psiPc' = "done"
    /\ UNCHANGED <<psiApiKey, includeCo2, greenCheck, urlSettings, sheet,
                   requests, responses, idx, alerts, thrown, allResults,
                   rowsBefore>>
    /\ UNCHANGED PsiFrame

PsiNext == SubmitTests \/ DeleteOldRows \/ ProcessResponse \/ LoopDone

SpecPSI == PsiInit /\ [][PsiNext]_vars

\* ---- runPSITests, run after run on the same spreadsheet ----

\* the first run of a configured spreadsheet: key set, CO2 reporting off,
\* a results sheet that holds its header only
RunsInit ==
    /\ PsiInit
    /\ trim(psiApiKey) # <<>>
    /\ includeCo2 = <<>>
    /\ sheet = <<ResultsHeader(21)>>

\* lines 1475-1479: the menu entry is used again after a run has ended;
\* the URL settings may have been edited in between, the results sheet is
\* the one the last run left
RunAgain ==
    /\ psiPc \in {"done", "threw"}
    /\ urlSettings' \in (SeqsUpTo(SettingChoices, MaxUrls) \ {<<>>})
    /\ requests' = <<>>
    /\ responses' = <<>>
    /\ idx' = 0
    /\ thrown' = "none"
    /\ psiPc' = "start"
    /\ rowsBefore' = getLastRow(sheet)
    /\ UNCHANGED <<psiApiKey, includeCo2, greenCheck, sheet, alerts, allResults>>
    /\ UNCHANGED PsiFrame

RunsNext == PsiNext \/ RunAgain

SpecPSIRuns == RunsInit /\ [][RunsNext]_vars

----------------------------------------------------------------------------
(* sls_core.js: getTemplateLayoutId                                        *)

\* layoutName ? ... : ... takes the first branch for a non-empty string
Truthy(v) == v # NullString /\ v # Str(<<>>)

\* layout.layoutProperties.displayName === nameToMatch
NameMatches(layout, nameToMatch) == layout.displayName = nameToMatch

\* the for loop taken from the end: the last match wins
RECURSIVE FindLayout_Last(_, _)
FindLayout_Last(ls, nameToMatch) ==
    IF ls = <<>> THEN ""
    ELSE IF NameMatches(ls[Len(ls)], nameToMatch) THEN ls[Len(ls)].objectId
    ELSE FindLayout_Last(SubSeq(ls, 1, Len(ls) - 1), nameToMatch)

\* lines 139-143: for (const layout of layouts) if (...) return
\* layout.objectId; "" when the loop ends without a return
RECURSIVE FindLayout(_, _)
FindLayout(ls, nameToMatch) ==
    IF ls = <<>> THEN ""
    ELSE IF NameMatches(Head(ls), nameToMatch) THEN Head(ls).objectId
    ELSE FindLayout(Tail(ls), nameToMatch)

\* the layouts a template may hold; two of them carry the same displayName
LayoutTitle == [objectId |-> "p1", displayName |-> Str(<<"Title">>)]
LayoutTable == [objectId |-> "p2", displayName |-> Str(<<"Table">>)]
LayoutTitleCopy == [objectId |-> "p3", displayName |-> Str(<<"Title">>)]
LayoutBlank == [objectId |-> "p4", displayName |-> Str(<<"Blank">>)]

LayoutChoices == {LayoutTitle, LayoutTable, LayoutTitleCopy, LayoutBlank}

\* object ids are unique within a presentation
DistinctIds(ls) ==
    \A i, j \in 1..Len(ls) : ls[i].objectId = ls[j].objectId => i = j

\* what the configuration may hold under LAYOUT_NAME: nothing, or a name
PropertyChoices == {NullString, Str(<<"Title">>), Str(<<"Table">>)}

\* the layoutName a caller passes: none, or a non-empty name
ArgumentChoices ==
    {NullString, Str(<<"Title">>), Str(<<"Blank">>), Str(<<"Header">>)}

LyInit ==
    /\ layouts \in {ls \in SeqsUpTo(LayoutChoices, MaxLayouts) : DistinctIds(ls)}
    /\ LAYOUT_NAME \in PropertyChoices
    /\ layoutName = NullString
    /\ layoutId = ""
    /\ lyPc = "call"
    /\ PagIdle
    /\ PsiIdle
    /\ HIdle
    /\ DjIdle
    /\ CfgIdle
    /\ ImgIdle
    /\ DeckIdle

\* lines 135-146: one call of getTemplateLayoutId(presentationId, layoutName)
GetTemplateLayoutId ==
    /\ lyPc = "call"
    /\ \E arg \in ArgumentChoices :
          LET nameToMatch == IF Truthy(arg) THEN arg ELSE LAYOUT_NAME
              found == FindLayout(layouts, nameToMatch)
          IN /\ layoutName' = arg
             /\ layoutId' = found
             /\ lyPc' = IF found # "" THEN "returned" ELSE "threw"
    /\ UNCHANGED <<layouts, LAYOUT_NAME>>
    /\ UNCHANGED LyFrame

LyNext == GetTemplateLayoutId

SpecLayout == LyInit /\ [][LyNext]_vars

----------------------------------------------------------------------------
(* utilities/helpers.js: getFunctionByName, isValidImageUrl; truncateUrl   *)

\* In this part a string is the sequence of its characters.

LowerCaseLetters ==
    {"a", "b", "c", "d", "e", "f", "g", "h", "i", "j", "k", "l", "m",
     "n", "o", "p", "q", "r", "s", "t", "u", "v", "w", "x", "y", "z"}

UpperCaseLetters ==
    {"A", "B", "C", "D", "E", "F", "G", "H", "I", "J", "K", "L", "M",
     "N", "O", "P", "Q", "R", "S", "T", "U", "V", "W", "X", "Y", "Z"}

Digits == {"0", "1", "2", "3", "4", "5", "6", "7", "8", "9"}

\* the character class [a-zA-Z0-9]
AlphanumericClass == LowerCaseLetters \cup UpperCaseLetters \cup Digits

\* /[a-zA-Z0-9]+/ without the anchors: some part of the text matches
AlphanumericRegexTest_Unanchored(text) ==
    \E i \in 1..Len(text) : text[i] \in AlphanumericClass

\* /^[a-zA-Z0-9]+$/.test(text): one or more characters of the class from
\* the start of the text to its end
RECURSIVE AlphanumericRegexTest(_)
AlphanumericRegexTest(text) ==
    /\ text # <<>>
    /\ Head(text) \in AlphanumericClass
    /\ (Tail(text) = <<>> \/ AlphanumericRegexTest(Tail(text)))

\* the functions and other values bound in the global scope of the script
FunctionValue(name) == <<"function", name>>

GlobalNames ==
    {<<"m", "y", "F", "u", "n", "c", "t", "i", "o", "n">>, <<"s", "l",
      "i", "d", "e", "s", "2">>, <<"m", "y", "_", "f", "u", "n", "c", "t",
        "i", "o", "n">>}

\* new Function(`return ${name};`)(): a run of digits is a number, other
\* text that starts with a digit and a reserved word do not parse, a bound
\* identifier gives its value and an unbound one a ReferenceError
Evaluate(name) ==
    IF \A i \in 1..Len(name) : name[i] \in Digits
    THEN [threw |-> "none", value |-> <<"number", name>>]
    ELSE IF Head(name) \in Digits \/ name = <<"n", "e", "w">>
    THEN [threw |-> "SyntaxError"]
    ELSE IF name \in GlobalNames
    THEN [threw |-> "none", value |-> FunctionValue(name)]
    ELSE [threw |-> "ReferenceError"]

\* String.prototype.startsWith
RECURSIVE startsWith(_, _)
startsWith(text, searchString) ==
    \/ searchString = <<>>
    \/ /\ text # <<>>
       /\ Head(text) = Head(searchString)
       /\ startsWith(Tail(text), Tail(searchString))

\* String.prototype.slice(0, end) for 0 <= end
slice(text, end) == SubSeq(text, 1, IF end < Len(text) THEN end ELSE Len(text))

HttpPrefix == <<"h", "t", "t", "p", ":", "/", "/">>
HttpsPrefix == <<"h", "t", "t", "p", "s", ":", "/", "/">>

isValidImageUrl_AnyScheme(url) ==
    \E i \in 1..Len(url) : startsWith(SubSeq(url, i, Len(url)), <<":">>)

\* helpers.js 61-64
isValidImageUrl(url) ==
    startsWith(url, HttpPrefix) \/ startsWith(url, HttpsPrefix)

\* part_006 650: const maxLineLength = 64
maxLineLength == 64

\* part_006 649-655
truncateUrl(urlString) ==
    IF Len(urlString) < maxLineLength THEN urlString
    ELSE slice(urlString, maxLineLength) \o <<".", ".", ".">>

\* an https URL of n characters, cut off where n is below the length of
\* the scheme
LongUrl(n) == [i \in 1..n |-> IF i <= Len(HttpsPrefix) THEN HttpsPrefix[i]
                                                      ELSE "a"]

TextChoices ==
    {LongUrl(n) : n \in 0..MaxUrlLength} \cup
    {<<"m", "y", "F", "u", "n", "c", "t", "i", "o", "n">>,
     <<"s", "l", "i", "d", "e", "s", "2">>,
     <<"m", "y", "_", "f", "u", "n", "c", "t", "i", "o", "n">>,
     <<"n", "e", "w">>,
     <<"n", "o", "s", "u", "c", "h">>,
     <<"1", "2", "3">>,
     <<"1", "a", "b", "c">>,
     <<"m", "y", "F", "u", "n", "c", "t", "i", "o", "n", "1", "2", "3", "!">>,
     <<"a", "l", "e", "r", "t", "(", "1", ")">>,
     <<"a", " ", "b">>,
     <<"h", "t", "t", "p", ":", "/", "/", "e", "x", "a", "m", "p", "l",
       "e", ".", "c", "o", "m", "/", "a", ".", "j", "p", "g">>,
     <<"h", "t", "t", "p", "s", ":", "/", "/", "e", "x", "a", "m", "p",
       "l", "e", ".", "c", "o", "m", "/", "i", "m", "a", "g", "e", ".",
         "p", "n", "g">>,
     <<"m", "a", "i", "l", "t", "o", ":", "e", "x", "a", "m", "p", "l",
       "e", "@", "e", "x", "a", "m", "p", "l", "e", ".", "c", "o", "m">>,
     <<"i", "m", "a", "g", "e", ".", "p", "n", "g">>,
     <<"H", "T", "T", "P", "S", ":", "/", "/", "e", "x", "a", "m", "p",
       "l", "e", ".", "c", "o", "m", "/", "a", ".", "p", "n", "g">>,
     <<" ", "h", "t", "t", "p", "s", ":", "/", "/", "e", "x", "a", "m",
       "p", "l", "e", ".", "c", "o", "m">>,
     <<"f", "t", "p", ":", "/", "/", "h", "o", "s", "t", "/", "h", "t",
       "t", "p", ":", "/", "/", "x">>,
     <<"/", "/", "e", "x", "a", "m", "p", "l", "e", ".", "c", "o", "m",
       "/", "a", ".", "p", "n", "g">>}

HInit ==
    /\ argument \in TextChoices
    /\ called = "none"
    /\ returned = <<"undefined", <<>>>>
    /\ raised = "none"
    /\ evaluated = <<>>
    /\ PagIdle
    /\ PsiIdle
    /\ LyIdle
    /\ DjIdle
    /\ CfgIdle
    /\ ImgIdle
    /\ DeckIdle

\* helpers.js 47-53
GetFunctionByName ==
    /\ called = "none"
    /\ called' = "getFunctionByName"
    /\ IF ~AlphanumericRegexTest(argument)
       THEN /\ raised' = "Error: Function name not alphanumeric"
            /\ UNCHANGED <<returned, evaluated>>
       ELSE LET result == Evaluate(argument)
            IN /\ evaluated' = Append(evaluated,
                                   <<"r", "e", "t", "u", "r", "n",
                                     " ">> \o argument \o <<";">>)
               /\ raised' = result.threw
               /\ returned' = IF result.threw = "none" THEN result.value
                               ELSE returned
    /\ UNCHANGED argument
    /\ UNCHANGED HFrame

\* helpers.js 61-64
IsValidImageUrl ==
    /\ called = "none"
    /\ called' = "isValidImageUrl"
    /\ returned' = <<"boolean", isValidImageUrl(argument)>>
    /\ UNCHANGED <<argument, raised, evaluated>>
    /\ UNCHANGED HFrame

\* part_006 649-655
TruncateUrl ==
    /\ called = "none"
    /\ called' = "truncateUrl"
    /\ returned' = <<"string", truncateUrl(argument)>>
    /\ UNCHANGED <<argument, raised, evaluated>>
    /\ UNCHANGED HFrame

HNext == GetFunctionByName \/ IsValidImageUrl \/ TruncateUrl

SpecHelpers == HInit /\ [][HNext]_vars

----------------------------------------------------------------------------
(* sls_core.js: customDataInjection                                        *)

\* the rows a dictionary sheet may hold below its header: a search key and
\* its replacement; a key of one blank is not empty, the last two rows have
\* an empty key
EntryClient == <<Str(<<"{{client}}">>), Str(<<"ACME">>)>>
EntryDate == <<Str(<<"{{date}}">>), Str(<<"2026">>)>>
EntryBlankKey == <<Str(<<" ">>), Str(<<"_">>)>>
EntryNoKey == <<Str(<<>>), Str(<<"orphan">>)>>
EntryEmpty == <<Str(<<>>), Str(<<>>)>>

EntryChoices == {EntryClient, EntryDate, EntryBlankKey, EntryNoKey, EntryEmpty}

DictionaryHeader == <<Str(<<"Key">>), Str(<<"Value">>)>>

\* getDataRange().offset(1, 0).getValues(): the data range moved one row
\* down, so without the header and with the empty row below the last one
OffsetOneRow(sheetRows) == Tail(sheetRows) \o <<EntryEmpty>>

\* !row[0] for a text cell: the empty string is the only falsy text
KeyMissing(r) == r[1] = Str(<<>>)

DjInit ==
    /\ dictionarySheet \in
          {<<DictionaryHeader>> \o d : d \in SeqsUpTo(EntryChoices, MaxEntries)}
    /\ dictionary = <<>>
    /\ entry = 0
    /\ replaced = <<>>
    /\ djPc = "call"
    /\ PagIdle
    /\ PsiIdle
    /\ LyIdle
    /\ HIdle
    /\ CfgIdle
    /\ ImgIdle
    /\ DeckIdle

\* lines 102-109: the deck is opened and the dictionary read
ReadDictionary ==
    /\ djPc = "call"
    /\ dictionary' = OffsetOneRow(dictionarySheet)
    /\ entry' = 1
    /\ djPc' = "loop"
    /\ UNCHANGED <<dictionarySheet, replaced>>
    /\ UNCHANGED DjFrame

\* lines 111-113: an iteration that replaces
ReplaceEntry ==
    /\ djPc = "loop"
    /\ entry <= Len(dictionary)
    /\ ~KeyMissing(dictionary[entry])
    /\ replaced' = Append(replaced, dictionary[entry])
    /\ entry' = entry + 1
    /\ UNCHANGED <<dictionarySheet, dictionary, djPc>>
    /\ UNCHANGED DjFrame

StopInjection_SkipEmpty ==
    /\ djPc = "loop"
    /\ IF entry <= Len(dictionary)
       THEN /\ KeyMissing(dictionary[entry])
            /\ entry' = entry + 1
            /\ djPc' = djPc
       ELSE /\ entry' = entry
            /\ djPc' = "done"
    /\ UNCHANGED <<dictionarySheet, dictionary, replaced>>
    /\ UNCHANGED DjFrame

\* line 112: break on a missing key, or the loop is through
StopInjection ==
    /\ djPc = "loop"
    /\ (entry > Len(dictionary) \/ KeyMissing(dictionary[entry]))
    /\ djPc' = "done"
    /\ UNCHANGED <<dictionarySheet, dictionary, entry, replaced>>
    /\ UNCHANGED DjFrame

DjNext == ReadDictionary \/ ReplaceEntry \/ StopInjection

SpecInjection == DjInit /\ [][DjNext]_vars

----------------------------------------------------------------------------
(* sls_core.js, sls_web.js: loadConfiguration                              *)

\* sls_web.js 256
NUM_PROPERTIES == 16

\* the decimal digits of a natural number, as String(n) writes them
RECURSIVE Decimal(_)
Decimal(n) ==
    LET digit == <<"0", "1", "2", "3", "4", "5", "6", "7", "8", "9">>
    IN IF n < 10 THEN <<digit[n + 1]>>
       ELSE Decimal(n \div 10) \o <<digit[(n % 10) + 1]>>

\* String(value[1]) for a text cell and for a number cell
String(cell) == IF cell[1] = "num" THEN Str(Decimal(cell[2])) ELSE cell

\* the i-th row of the configuration range: a property name and its value,
\* a number in every third row
ConfigKey(i) == <<"PROPERTY_">> \o Decimal(i)
ConfigEntry(i) ==
    <<Str(ConfigKey(i)),
      IF i % 3 = 0 THEN Num(10 * i) ELSE Str(<<"value ">> \o Decimal(i))>>

ConfigKeys == {ConfigKey(i) : i \in 1..MaxConfigRows}

\* the named range: not there, or a range of one row or more
RangeChoices ==
    {[found |-> FALSE]} \cup
    {[found |-> TRUE, values |-> [i \in 1..n |-> ConfigEntry(i)]] :
        n \in 1..MaxConfigRows}

\* the store before the call: nothing set, or the first properties left by
\* an earlier load
StoreChoices ==
    {[k \in ConfigKeys |-> NullString],
     [k \in ConfigKeys |->
        IF k \in {ConfigKey(1), ConfigKey(2)} THEN Str(<<"old">>)
        ELSE NullString]}

TooFewRows_Unchecked(v, rows) == FALSE

\* sls_web.js 270: values.length < NUM_PROPERTIES, a check that sls_core.js
\* does not have
TooFewRows(v, rows) == v = "web" /\ Len(rows) < NUM_PROPERTIES

\* documentProperties.setProperty(key, value)
setProperty(store, key, value) == [store EXCEPT ![key] = value]

CfgInit ==
    /\ variant \in {"core", "web"}
    /\ configRange \in RangeChoices
    /\ properties \in StoreChoices
    /\ propertiesBefore = properties
    /\ configRow = 0
    /\ configError = "none"
    /\ cfgPc = "call"
    /\ PagIdle
    /\ PsiIdle
    /\ LyIdle
    /\ HIdle
    /\ DjIdle
    /\ ImgIdle
    /\ DeckIdle

\* sls_core.js 52-56, sls_web.js 265-272: the range is looked up and checked
GetRangeByName ==
    /\ cfgPc = "call"
    /\ IF ~configRange.found
       THEN /\ configError' = "ERROR_MISSING_RANGE"
            /\ cfgPc' = "threw"
            /\ configRow' = configRow
       ELSE IF TooFewRows(variant, configRange.values)
       THEN /\ configError' = "ERROR_MISSING_PROPERTY"
            /\ cfgPc' = "threw"
            /\ configRow' = configRow
       ELSE /\ configRow' = 1
            /\ cfgPc' = "loop"
            /\ configError' = configError
    /\ UNCHANGED <<variant, configRange, properties, propertiesBefore>>
    /\ UNCHANGED CfgFrame

\* sls_core.js 57-59: one iteration of for (const value of values)
SetProperty ==
    /\ cfgPc = "loop"
    /\ configRow <= Len(configRange.values)
    /\ LET value == configRange.values[configRow]
       IN properties' = setProperty(properties, value[1][2], String(value[2]))
    /\ configRow' = configRow + 1
    /\ UNCHANGED <<variant, configRange, propertiesBefore, configError, cfgPc>>
    /\ UNCHANGED CfgFrame

\* the loop is through, loadConfiguration returns
ConfigurationLoaded ==
    /\ cfgPc = "loop"
    /\ configRow > Len(configRange.values)
    /\ cfgPc' = "done"
    /\ UNCHANGED <<variant, configRange, properties, propertiesBefore,
                   configRow, configError>>
    /\ UNCHANGED CfgFrame

CfgNext == GetRangeByName \/ SetProperty \/ ConfigurationLoaded

SpecConfiguration == CfgInit /\ [][CfgNext]_vars

----------------------------------------------------------------------------
(* sls_ux.js: retrieveImage                                                *)

\* files of the images folder: a title in chunks and a mime type
FileHome == [id |-> "f1", title |-> <<"C1", "-home.png">>,
             mimeType |-> <<"image", "/png">>]
FileCart == [id |-> "f2", title |-> <<"C1", "-cart.jpg">>,
             mimeType |-> <<"image", "/jpeg">>]
FileOther == [id |-> "f3", title |-> <<"C2", "-home.png">>,
              mimeType |-> <<"image", "/png">>]
FileNotes == [id |-> "f4", title |-> <<"C1", "-notes.txt">>,
              mimeType |-> <<"text", "/plain">>]

FileChoices == {FileHome, FileCart, FileOther, FileNotes}

\* a file is in a folder once
DistinctFiles(fs) == \A i, j \in 1..Len(fs) : fs[i].id = fs[j].id => i = j

\* text contains part, for texts given in chunks
contains(text, part) == \E i \in 1..Len(text) : text[i] = part

\* folder.searchFiles("title contains '<id>' and mimeType contains 'image'")
RECURSIVE searchFiles(_, _)
searchFiles(fs, id) ==
    IF fs = <<>> THEN <<>>
    ELSE (IF contains(Head(fs).title, id) /\ contains(Head(fs).mimeType, "image")
          THEN <<Head(fs)>> ELSE <<>>) \o searchFiles(Tail(fs), id)

\* sls_ux.js 41-42: the two warnings have the same text
WARNING_NO_IMAGES == "No image found for criteria id "
WARNING_MULTIPLE_IMAGES == "No image found for criteria id "

\* documentProperties.getProperty('UX_DEFAULT_IMAGE_MOCKUP')
UX_DEFAULT_IMAGE_MOCKUP == <<"url", <<"https://mockup.example/default.png">>>>

ImgInit ==
    /\ folder \in {fs \in SeqsUpTo(FileChoices, MaxFiles) : DistinctFiles(fs)}
    /\ criteriaId \in {"C1", "C2"}
    /\ files = <<>>
    /\ matches = <<>>
    /\ file = <<"null", <<>>>>
    /\ toasts = <<>>
    /\ background = "unset"
    /\ imgPc = "call"
    /\ PagIdle
    /\ PsiIdle
    /\ LyIdle
    /\ HIdle
    /\ DjIdle
    /\ CfgIdle
    /\ DeckIdle

\* lines 176-179: the search is run
SearchFiles ==
    /\ imgPc = "call"
    /\ files' = searchFiles(folder, criteriaId)
    /\ matches' = searchFiles(folder, criteriaId)
    /\ imgPc' = "searched"
    /\ UNCHANGED <<folder, criteriaId, file, toasts, background>>
    /\ UNCHANGED ImgFrame

\* lines 181-189: the next file of the iterator, or the default mockup
PickFile ==
    /\ imgPc = "searched"
    /\ IF files # <<>>
       THEN /\ file' = <<"file", Head(files).id>>
            /\ files' = Tail(files)
            /\ background' = "white"
            /\ toasts' = toasts
       ELSE /\ toasts' = Append(toasts, <<WARNING_NO_IMAGES, criteriaId>>)
            /\ background' = "red"
            /\ file' = UX_DEFAULT_IMAGE_MOCKUP
            /\ files' = files
    /\ imgPc' = "picked"
    /\ UNCHANGED <<folder, criteriaId, matches>>
    /\ UNCHANGED ImgFrame

\* lines 191-196: the warning when the iterator has more, then return file
WarnAndReturn ==
    /\ imgPc = "picked"
    /\ toasts' = IF files # <<>>
                 THEN Append(toasts, <<WARNING_MULTIPLE_IMAGES, criteriaId>>)
                 ELSE toasts
    /\ imgPc' = "done"
    /\ UNCHANGED <<folder, criteriaId, files, matches, file, background>>
    /\ UNCHANGED ImgFrame

ImgNext == SearchFiles \/ PickFile \/ WarnAndReturn

SpecImage == ImgInit /\ [][ImgNext]_vars

----------------------------------------------------------------------------
(* sls_apps.js: createDeckFromDatasource                                   *)

\* JSON.stringify of a value that JSON can carry: the text parses back to it
JSONstringify(value) == <<"json", value>>

\* lines 275-287: the request for the width of column i of a table
ColumnRequest(tableId, i) ==
    <<"updateTableColumnProperties", tableId, i, COLUMN_WIDTH[i + 1]>>

\* lines 290-312: the request for the background of the header row, written
\* with its rowIndex and columnSpan
CellRequest(tableId) == <<"updateTableCellProperties", tableId, 0, 6>>

\* lines 268-315: buildTableStyleSlidesRequest, from the stored text to the
\* stored text
buildTableStyleSlidesRequest(stored, tableId) ==
    LET parsed == JSONparse(stored).value
        columns == [k \in 1..Len(COLUMN_WIDTH) |-> ColumnRequest(tableId, k - 1)]
    IN JSONstringify(parsed \o columns \o <<CellRequest(tableId)>>)

FirstRequests_CarriedOver(stored) ==
    IF stored[1] = "json" THEN stored ELSE JSONstringify(<<>>)

\* line 74: setProperty('SLIDES_REQUESTS', JSON.stringify([]))
FirstRequests(stored) == JSONstringify(<<>>)

\* the table pages createPaginatedTableSlides makes for one section; 0 for
\* a sheet that createSlideSection returns early on
PageChoices == {0, 1, 2}

SectionChoices == SeqsUpTo(PageChoices, MaxSections) \ {<<>>}

DeckInit ==
    /\ SLIDES_REQUESTS = <<"null", <<>>>>
    /\ auditSheets \in SectionChoices
    /\ sheetIdx = 0
    /\ pagesDone = 0
    /\ tables = <<>>
    /\ tableCount = 0
    /\ applied = <<"nothing", <<>>>>
    /\ requestsBefore = <<"null", <<>>>>
    /\ executions = 1
    /\ deckPc = "start"
    /\ PagIdle
    /\ PsiIdle
    /\ LyIdle
    /\ HIdle
    /\ DjIdle
    /\ CfgIdle
    /\ ImgIdle

\* lines 72-81: configuration, the list of requests is reset, base deck,
\* layouts and the list of sections
BeginDeck ==
    /\ deckPc = "start"
    /\ SLIDES_REQUESTS' = FirstRequests(SLIDES_REQUESTS)
    /\ sheetIdx' = 1
    /\ pagesDone' = 0
    /\ deckPc' = "sections"
    /\ UNCHANGED <<auditSheets, tables, tableCount, applied, requestsBefore,
                   executions>>
    /\ UNCHANGED DeckFrame

\* lines 205-229: createTableSlide for the next page of the section, with
\* buildTableStyleSlidesRequest for the table it inserted
CreateTableSlide ==
    /\ deckPc = "sections"
    /\ sheetIdx <= Len(auditSheets)
    /\ pagesDone < auditSheets[sheetIdx]
    /\ LET tableId == tableCount + 1
       IN /\ tables' = Append(tables, tableId)
          /\ tableCount' = tableId
          /\ SLIDES_REQUESTS' =
                buildTableStyleSlidesRequest(SLIDES_REQUESTS, tableId)
    /\ pagesDone' = pagesDone + 1
    /\ UNCHANGED <<auditSheets, sheetIdx, applied, requestsBefore, executions,
                   deckPc>>
    /\ UNCHANGED DeckFrame

\* lines 83-87: createSlideSection has returned, the loop goes on
NextSection ==
    /\ deckPc = "sections"
    /\ sheetIdx <= Len(auditSheets)
    /\ pagesDone = auditSheets[sheetIdx]
    /\ sheetIdx' = sheetIdx + 1
    /\ pagesDone' = 0
    /\ UNCHANGED <<SLIDES_REQUESTS, auditSheets, tables, tableCount, applied,
                   requestsBefore, executions, deckPc>>
    /\ UNCHANGED DeckFrame

\* lines 88-91: the stored requests are parsed and applied in one batch
BatchUpdate ==
    /\ deckPc = "sections"
    /\ sheetIdx > Len(auditSheets)
    /\ applied' = <<"requests", JSONparse(SLIDES_REQUESTS).value>>
    /\ deckPc' = "done"
    /\ UNCHANGED <<SLIDES_REQUESTS, auditSheets, sheetIdx, pagesDone, tables,
                   tableCount, requestsBefore, executions>>
    /\ UNCHANGED DeckFrame

\* an exception or the execution time limit ends the execution while the
\* sections are made (lines 83-87); nothing is caught or cleaned up
AbortDeck ==
    /\ deckPc = "sections"
    /\ deckPc' = "failed"
    /\ UNCHANGED <<SLIDES_REQUESTS, auditSheets, sheetIdx, pagesDone, tables,
                   tableCount, applied, requestsBefore, executions>>
    /\ UNCHANGED DeckFrame

\* line 71: the function is run again on the same spreadsheet
BeginAgain ==
    /\ deckPc \in {"done", "failed"}
    /\ executions < MaxExecutions
    /\ executions' = executions + 1
    /\ auditSheets' \in SectionChoices
    /\ requestsBefore' = SLIDES_REQUESTS
    /\ sheetIdx' = 0
    /\ pagesDone' = 0
    /\ tables' = <<>>
    /\ applied' = <<"nothing", <<>>>>
    /\ deckPc' = "start"
    /\ UNCHANGED <<SLIDES_REQUESTS, tableCount>>
    /\ UNCHANGED DeckFrame

DeckNext ==
    \/ BeginDeck
    \/ CreateTableSlide
    \/ NextSection
    \/ BatchUpdate
    \/ AbortDeck
    \/ BeginAgain

SpecDeck == DeckInit /\ [][DeckNext]_vars

----------------------------------------------------------------------------
(* Properties of createPaginatedTableSlides                                *)

\* the data rows of the call: everything after the header row
DataRows == Tail(input)

\* the data rows of the emitted pages, header removed, in emission order
RECURSIVE ConcatData(_)
ConcatData(ps) ==
    IF ps = <<>> THEN <<>> ELSE Tail(Head(ps)) \o ConcatData(Tail(ps))

RECURSIVE SumHeights(_)
SumHeights(rows) ==
    IF rows = <<>> THEN 0
    ELSE calculateRowHeight(Head(rows)) + SumHeights(Tail(rows))

Oversized(row) == calculateRowHeight(row) > MAX_PAGE_HEIGHT

AllRowsFit == \A i \in 1..Len(DataRows) : ~Oversized(DataRows[i])

IsPrefix(s, t) == Len(s) <= Len(t) /\ s = SubSeq(t, 1, Len(s))

\* C2: when there is at least one data row and no data row is higher than
\* MAX_PAGE_HEIGHT, the pages emitted by the finished call, headers removed
\* and concatenated in emission order, are exactly the data rows in order.
C2_PagesPreserveRows ==
    (pc = "done" /\ Len(DataRows) > 0 /\ AllRowsFit)
        => ConcatData(pages) = DataRows

C2_Witness ==
    /\ pc = "done"
    /\ AllRowsFit
    /\ Len(DataRows) = MaxRows
    /\ Len(pages) >= 2

\* C3 (as claimed): an iteration that meets, on an empty page, a row that is
\* by itself higher than MAX_PAGE_HEIGHT keeps that row (on the page, or in
\* the page it emits) and moves on to the next row.
C3_OversizedRowKept ==
    [][(/\ pc = "loop"
        /\ Len(values) > 0
        /\ page = <<>>
        /\ currentPageHeight = 0
        /\ Oversized(Head(values)))
       => (/\ values' = Tail(values)
           /\ \/ page' = <<Head(values)>>
              \/ pages' = Append(pages, <<headerRow, Head(values)>>))]_vars

\* C4: every emitted page that is not the last one holds data rows whose
\* heights sum to at most MAX_PAGE_HEIGHT, unless it holds exactly one data
\* row that is by itself higher than MAX_PAGE_HEIGHT.
C4_PageHeightBound ==
    \A k \in 1..(Len(pages) - 1) :
        \/ SumHeights(Tail(pages[k])) <= MAX_PAGE_HEIGHT
        \/ (Len(pages[k]) = 2 /\ Oversized(pages[k][2]))

C4_Witness ==
    /\ Len(pages) >= 2
    /\ \E k \in 1..(Len(pages) - 1) : Len(pages[k]) >= 4

\* C5 (as claimed): a row that overflows a page holding at least one row is
\* not put on that page, the page is flushed with the header prepended, and
\* in the following iteration the row becomes the first row of the next page
\* with the running height restarted at that row's height.
C5_OverflowRowStartsNextPage ==
    [][/\ (/\ pc = "loop"
           /\ Len(values) > 0
           /\ page # <<>>
           /\ currentPageHeight + calculateRowHeight(Head(values))
                  > MAX_PAGE_HEIGHT)
          => (/\ pages' = Append(pages, <<headerRow>> \o page)
              /\ values' = values
              /\ page' = <<>>
              /\ currentPageHeight' = 0)
       \* a fresh page after an overflow flush: the returned row is next
       /\ (/\ pc = "loop"
           /\ Len(values) > 0
           /\ page = <<>>
           /\ currentPageHeight = 0
           /\ pages # <<>>)
          => (/\ values' = Tail(values)
              /\ \/ (/\ page' = <<Head(values)>>
                      /\ currentPageHeight' = calculateRowHeight(Head(values)))
                 \/ (/\ Tail(values) = <<>>
                      /\ pages' = Append(pages, <<headerRow, Head(values)>>)))
      ]_vars

\* C6: every page handed to createTableSlide is the header row followed by
\* at least one data row, and the data rows of the emitted pages, in
\* emission order, are a prefix of the input data rows.
C6_PagesWellFormed ==
    /\ \A k \in 1..Len(pages) :
           /\ Len(pages[k]) >= 2
           /\ pages[k][1] = input[1]
    /\ IsPrefix(ConcatData(pages), DataRows)

C6_Witness ==
    /\ Len(pages) >= 2
    /\ pc = "loop"
    /\ Len(values) > 0

\* the input the claimed validation would reject
Malformed ==
    \/ Len(DataRows) = 0
    \/ \E i \in 1..Len(input) : Len(input[i]) # Len(COLUMN_WIDTH)

\* C7 (as claimed): on malformed input the call fails: it never returns
\* normally and no page is emitted.
C7_RejectsMalformed ==
    Malformed => (pc # "done" /\ pages = <<>>)

\* the estimate over the cells that have a configured column width
ConfiguredMax(row) ==
    LET hs == {CeilDiv(row[j] * LINE_HEIGHT, COLUMN_WIDTH[j]) * LINE_HEIGHT :
                  j \in DOMAIN row \cap DOMAIN COLUMN_WIDTH} \cup {0}
    IN CHOOSE m \in hs : \A x \in hs : x <= m

\* C7 (amended): the pagination does not validate its input.  With no data
\* row it returns normally without emitting a page; rows with more or fewer
\* cells than configured widths are paginated like any others, their height
\* being the estimate over the cells that have a configured width.
C7_NoValidation ==
    /\ \A i \in 1..Len(DataRows) :
           calculateRowHeight(DataRows[i]) = ConfiguredMax(DataRows[i])
    /\ (Malformed /\ pc = "done") =>
           /\ ConcatData(pages) = DataRows
           /\ (Len(DataRows) = 0 => pages = <<>>)

C7_Witness ==
    /\ pc = "done"
    /\ Len(input[1]) > Len(COLUMN_WIDTH)
    /\ Len(pages) >= 2

\* the rows still in values are the last rows of the table that was passed in
IsSuffix(s, t) ==
    \E n \in 0..Len(t) : s = SubSeq(t, n + 1, Len(t))

\* C18 (as claimed): when createPaginatedTableSlides has returned, the
\* caller's values array is what it was at the call.
C18_ValuesUnchanged == pc = "done" => values = input

\* C18 (amended): no row is ever modified, but the caller's values array is
\* consumed: during the call it holds a shrinking tail of the original rows,
\* and when createPaginatedTableSlides has returned it is empty.
C18_RowsKeptArrayConsumed ==
    /\ IsSuffix(values, input)
    /\ pc # "call" => Len(values) < Len(input)
    /\ pc = "done" => values = <<>>
    /\ \A p \in 1..Len(pages) : \A i \in 1..Len(pages[p]) :
          \E r \in 1..Len(input) : pages[p][i] = input[r]

C18_Witness ==
    /\ pc = "done"
    /\ Len(input) >= 4
    /\ Len(pages) >= 2
    /\ values = <<>>

\* ceil(len * LINE_HEIGHT / COLUMN_WIDTH[col]) * LINE_HEIGHT, the ceiling
\* being the least whole number of lines that hold the text
ExpectedCellHeight(len, col) ==
    LET area == len * LINE_HEIGHT
        w == COLUMN_WIDTH[col + 1]
        lines == CHOOSE n \in 0..area :
                    /\ n * w >= area
                    /\ \A m \in 0..area : m * w >= area => n <= m
    IN lines * LINE_HEIGHT

\* the maximum of the cell heights of a row
ExpectedRowHeight(row) ==
    LET hs == {ExpectedCellHeight(row[j], j - 1) : j \in 1..Len(row)}
    IN CHOOSE h \in hs : \A g \in hs : g <= h

RECURSIVE ExpectedPageHeight(_)
ExpectedPageHeight(rows) ==
    IF rows = <<>> THEN 0
    ELSE ExpectedRowHeight(Head(rows)) + ExpectedPageHeight(Tail(rows))

\* C19: for rows with as many cells as configured column widths, the height
\* of a cell is ceil(len * lineHeight / COLUMN_WIDTH[col]) * lineHeight and
\* the height of a row is the maximum over its cells: the height accumulated
\* for the rows on the current page is the sum of these row heights.
C19_HeightEstimate ==
    (/\ pc = "loop"
     /\ page # <<>>
     /\ \A i \in 1..Len(page) : Len(page[i]) = Len(COLUMN_WIDTH))
        => currentPageHeight = ExpectedPageHeight(page)

C19_Witness ==
    /\ pc = "loop"
    /\ Len(page) >= 2
    /\ \A i \in 1..Len(page) : Len(page[i]) = Len(COLUMN_WIDTH)
    /\ \E i \in 1..Len(page) : \E j, l \in 1..Len(page[i]) :
          /\ (page[i][j] * LINE_HEIGHT) % COLUMN_WIDTH[j] # 0
          /\ ExpectedCellHeight(page[i][j], j - 1) = ExpectedRowHeight(page[i])
          /\ ExpectedCellHeight(page[i][j], j - 1)
                > ExpectedCellHeight(page[i][l], l - 1)
          /\ ExpectedCellHeight(page[i][l], l - 1) > 0

----------------------------------------------------------------------------
(* Properties of runPSITests                                               *)

RunEnded == psiPc \in {"done", "threw"}

KeySet == trim(psiApiKey) # <<>>

\* the k-th response has been turned into a row of the results sheet
Processed(k) == psiPc \in {"loop", "done", "threw"} /\ k \in 1..idx

IsJson(k) == responses[k].text[1] = "json"
ContentOf(k) == responses[k].text[2]
IsErrorShape(k) == IsJson(k) /\ "error" \in DOMAIN ContentOf(k)
IsSuccess(k) == IsJson(k) /\ "error" \notin DOMAIN ContentOf(k)

\* the row of the results sheet written for the k-th URL setting
RowOf(k) == sheet[k + 1]

LastCell(row) == row.cells[Len(row.cells)]

BelongsTo(row, setting) ==
    /\ Len(row.cells) >= 3
    /\ row.cells[1] = Str(setting[1])
    /\ row.cells[2] = Str(setting[2])
    /\ row.cells[3] = Str(setting[3])

\* C1 (as claimed): with the API key set and CO2 reporting off, a run that
\* has ended has written exactly one row per URL setting, the i-th row for
\* the i-th setting, whatever requests failed.
C1_OneRowPerSetting ==
    (RunEnded /\ KeySet /\ includeCo2 = <<>>)
        => /\ Len(sheet) = 1 + Len(urlSettings)
           /\ \A k \in 1..Len(urlSettings) : BelongsTo(RowOf(k), urlSettings[k])

\* C8 (as claimed): once the responses are in, a body that is not JSON gives
\* an error-tagged row for its setting, every setting still gets its row and
\* the run ends without an exception.
C8_BadJsonRowOnly ==
    (RunEnded /\ responses # <<>> /\ includeCo2 = <<>>)
        => /\ thrown = "none"
           /\ Len(sheet) = 1 + Len(urlSettings)
           /\ \A k \in 1..Len(responses) :
                 ~IsJson(k) => LastCell(RowOf(k)) = Str(<<"PSI Error">>)

\* C9: the row written for an error-shaped response holds the setting's
\* url, label and device, then only 'N/A' placeholders, then the summary
\* 'PSI Error'; it has the light red background and a note that starts with
\* the API's error message unchanged.  The row written for a successful
\* response has another summary, no note and no background.
C9_ErrorRowTagged ==
    \A k \in 1..Len(responses) :
        Processed(k) =>
            /\ IsErrorShape(k) =>
                  /\ BelongsTo(RowOf(k), urlSettings[k])
                  /\ LastCell(RowOf(k)) = Str(<<"PSI Error">>)
                  /\ Len(RowOf(k).cells) >= 5
                  /\ \A c \in 4..(Len(RowOf(k).cells) - 1) :
                        RowOf(k).cells[c] = Str(<<"N/A">>)
                  /\ RowOf(k).background = "#fdf6f6"
                  /\ IsPrefix(ContentOf(k).error.message, RowOf(k).note)
            /\ IsSuccess(k) =>
                  /\ LastCell(RowOf(k)) # Str(<<"PSI Error">>)
                  /\ RowOf(k).background = ""
                  /\ RowOf(k).note = <<>>

C9_Witness ==
    /\ psiPc = "done"
    /\ \E k \in 1..Len(responses) :
          /\ IsErrorShape(k)
          /\ ContentOf(k).error.message = <<"Quota exceeded">>
          /\ IsPrefix(<<"Quota exceeded">>, RowOf(k).note)
    /\ \E k \in 1..Len(responses) : IsSuccess(k)

\* the data columns of a successful row: after url, label, device, date and
\* field-data type, before the summary
DataOf(k) == SubSeq(RowOf(k).cells, 6, Len(RowOf(k).cells) - 1)

\* number of field-experience entries of the k-th response's row
FieldCount(k) ==
    IF "metrics" \in DOMAIN ContentOf(k).loadingExperience
    THEN 1 + Len(createResultsMap.crux) ELSE 0

\* C10: the data of a successful row is, in this order, the screenshot
\* string, the field-experience entries if there are any, one score * 100
\* per configured category, one numericValue per configured lab metric, the
\* comma-joined failed audits and the lighthouse version.
C10_DataOrder ==
    \A k \in 1..Len(responses) :
        (Processed(k) /\ IsSuccess(k)) =>
            LET lhr == ContentOf(k).lighthouseResult
                d == DataOf(k)
                f == FieldCount(k)
                nc == Len(createResultsMap.categories)
                nm == Len(createResultsMap.metrics)
            IN /\ Len(d) >= 1 + f + nc + nm + 2
               /\ d[1] = Str(AuditNamed(lhr, "final-screenshot").details.data)
               /\ f > 0 => d[2] = Str(ContentOf(k).loadingExperience.overall_category)
               /\ \A j \in 3..(1 + f) :
                     \/ d[j][1] = "num"
                     \/ d[j] = Str(<<"N/A">>)
               /\ \A j \in 1..nc :
                     d[1 + f + j] =
                        Num(100 * lhr.categories[createResultsMap.categories[j]].score)
               /\ \A j \in 1..nm :
                     d[1 + f + nc + j] =
                        Num(AuditNamed(lhr, createResultsMap.metrics[j]).numericValue)
               /\ d[1 + f + nc + nm + 1] = Str(JoinComma(SelectFailed(lhr.audits)))
               /\ d[1 + f + nc + nm + 2] = Str(lhr.lighthouseVersion)

C10_Witness ==
    /\ psiPc = "done"
    /\ \E k \in 1..Len(responses) : IsSuccess(k) /\ FieldCount(k) > 0
    /\ \E k \in 1..Len(responses) : IsSuccess(k) /\ FieldCount(k) = 0

\* the audits whose score is a number strictly below 1, in key order
RECURSIVE ExpectedFailed(_)
ExpectedFailed(as) ==
    IF as = <<>> THEN <<>>
    ELSE (IF Head(as).score \in 0..(Hundredths - 1)
          THEN <<Head(as).id>> ELSE <<>>) \o ExpectedFailed(Tail(as))

NumCategories == Len(createResultsMap.categories)
NumLabMetrics == Len(createResultsMap.metrics)
NumFieldMetrics == Len(createResultsMap.crux)

\* C11: the failed-audit cell of a successful row lists, comma-joined and in
\* the key order of the audits object, exactly the audits whose score is a
\* number below 1; audits with score null, without score or with score 1 are
\* left out.
C11_FailedAudits ==
    \A k \in 1..Len(responses) :
        (Processed(k) /\ IsSuccess(k)) =>
            DataOf(k)[1 + FieldCount(k) + NumCategories + NumLabMetrics + 1]
                = Str(JoinComma(ExpectedFailed(ContentOf(k).lighthouseResult.audits)))

C11_Witness ==
    \E k \in 1..Len(responses) :
        /\ Processed(k)
        /\ IsSuccess(k)
        /\ LET as == ContentOf(k).lighthouseResult.audits
           IN /\ \E a \in DOMAIN as : as[a].score = Null
              /\ \E a \in DOMAIN as : as[a].score = Undefined
              /\ \E a \in DOMAIN as : as[a].score = 1 * Hundredths
              /\ Len(ExpectedFailed(as)) >= 2

HasFieldData(k) == "metrics" \in DOMAIN ContentOf(k).loadingExperience

\* 1 when the CO2 estimate is appended to the data, else 0
Co2Cells == IF includeCo2 # <<>> THEN 1 ELSE 0

\* C12: for a successful response without loadingExperience.metrics the row
\* is typed NONE (crux_data = false), its data holds no field-experience
\* entry at all, and the category scores and lab metrics follow the
\* screenshot directly.
C12_NoFieldData ==
    \A k \in 1..Len(responses) :
        (Processed(k) /\ IsSuccess(k) /\ ~HasFieldData(k)) =>
            LET lhr == ContentOf(k).lighthouseResult
                d == DataOf(k)
            IN /\ RowOf(k).cells[5] = Str(<<"NONE">>)
               /\ Len(d) = 1 + NumCategories + NumLabMetrics + 2 + Co2Cells
               /\ \A j \in 1..Len(d) : d[j] # Str(<<"N/A">>)
               /\ \A j \in 1..NumCategories :
                     d[1 + j] =
                        Num(100 * lhr.categories[createResultsMap.categories[j]].score)
               /\ \A j \in 1..NumLabMetrics :
                     d[1 + NumCategories + j] =
                        Num(AuditNamed(lhr, createResultsMap.metrics[j]).numericValue)

C12_Witness ==
    /\ psiPc = "done"
    /\ \E k \in 1..Len(responses) :
          /\ IsSuccess(k)
          /\ ~HasFieldData(k)
          /\ "origin_fallback" \notin DOMAIN ContentOf(k).loadingExperience

\* C13: for a successful response with loadingExperience.metrics the row is
\* typed PAGE or ORIGIN (crux_data = true) and its data holds exactly
\* 1 + |configured field metrics| field-experience entries after the
\* screenshot: the overall category, then per configured key a number when
\* the response has the metric and the one filler 'N/A' when it has not; the
\* category scores follow at a fixed position.
C13_FieldEntries ==
    \A k \in 1..Len(responses) :
        (Processed(k) /\ IsSuccess(k) /\ HasFieldData(k)) =>
            LET lhr == ContentOf(k).lighthouseResult
                le == ContentOf(k).loadingExperience
                d == DataOf(k)
            IN /\ RowOf(k).cells[5] \in {Str(<<"PAGE">>), Str(<<"ORIGIN">>)}
               /\ Len(d) = 1 + (1 + NumFieldMetrics) + NumCategories
                             + NumLabMetrics + 2 + Co2Cells
               /\ d[2] = Str(le.overall_category)
               /\ \A j \in 1..NumFieldMetrics :
                     IF createResultsMap.crux[j] \in DOMAIN le.metrics
                     THEN d[2 + j][1] = "num"
                     ELSE d[2 + j] = Str(<<"N/A">>)
               /\ \A j \in 1..NumCategories :
                     d[2 + NumFieldMetrics + j] =
                        Num(100 * lhr.categories[createResultsMap.categories[j]].score)

C13_Witness ==
    /\ psiPc = "done"
    /\ \E k \in 1..Len(responses) :
          /\ IsSuccess(k)
          /\ HasFieldData(k)
          /\ \E j \in 1..NumFieldMetrics :
                createResultsMap.crux[j] \notin DOMAIN ContentOf(k).loadingExperience.metrics
          /\ \E j \in 1..NumFieldMetrics :
                createResultsMap.crux[j] \in DOMAIN ContentOf(k).loadingExperience.metrics

\* C14: the stored CUMULATIVE_LAYOUT_SHIFT_SCORE percentile is the response's
\* percentile divided by 100 (1500 gives 15); the percentile of every other
\* configured field metric is stored as it is.
C14_LayoutShiftDivided ==
    \A k \in 1..Len(responses) :
        (Processed(k) /\ IsSuccess(k) /\ HasFieldData(k)) =>
            LET le == ContentOf(k).loadingExperience
                d == DataOf(k)
            IN \A j \in 1..NumFieldMetrics :
                  LET name == createResultsMap.crux[j]
                  IN name \in DOMAIN le.metrics =>
                        LET p == le.metrics[name].percentile
                        IN IF name = "CUMULATIVE_LAYOUT_SHIFT_SCORE"
                           THEN /\ d[2 + j][1] = "num"
                                /\ d[2 + j][2] * 100 = p
                                /\ (p = 1500 * Hundredths
                                      => d[2 + j] = Num(15 * Hundredths))
                           ELSE d[2 + j] = Num(p)

C14_Witness ==
    \E k \in 1..Len(responses) :
        /\ Processed(k)
        /\ IsSuccess(k)
        /\ HasFieldData(k)
        /\ ContentOf(k).loadingExperience.metrics
              ["CUMULATIVE_LAYOUT_SHIFT_SCORE"].percentile = 1500 * Hundredths
        /\ DataOf(k)[6] = Num(15 * Hundredths)

AllJson == \A k \in 1..Len(responses) : IsJson(k)

\* C15 (as claimed): with CO2 reporting on and every response well-formed, a
\* failing green-hosting lookup leaves the run without an exception and
\* every setting with its row.
C15_LookupFailureTolerated ==
    (/\ RunEnded
     /\ KeySet
     /\ includeCo2 # <<>>
     /\ greenCheck = "fail"
     /\ responses # <<>>
     /\ AllJson)
        => /\ thrown = "none"
           /\ Len(sheet) = 1 + Len(urlSettings)
           /\ \A k \in 1..Len(urlSettings) : BelongsTo(RowOf(k), urlSettings[k])

\* C16: the requests are handed over in one batch, one per URL setting, and
\* the results sheet only changes (rows deleted or appended) once a response
\* for every setting has been received.
C16_FanOutFanIn ==
    [][/\ (requests' # requests) =>
              /\ requests = <<>>
              /\ Len(requests') = Len(urlSettings)
              /\ sheet' = sheet
       /\ (sheet' # sheet) =>
              /\ Len(requests) = Len(urlSettings)
              /\ Len(responses) = Len(urlSettings)
              /\ responses' = responses]_vars

C16_Witness ==
    /\ psiPc = "done"
    /\ Len(urlSettings) >= 2
    /\ Len(sheet) = 1 + Len(urlSettings)

\* C27: however many runs came before, during the loop of a run the results
\* sheet holds its header and one row for each setting handled so far, and
\* when the run has completed it holds the header plus exactly one row per
\* URL setting of this run: the rows of earlier runs are gone before the
\* first new row is appended.
C27_NoAccumulation ==
    psiPc \in {"loop", "done"} =>
        /\ sheet[1] = ResultsHeader(Len(sheet[1].cells))
        /\ Len(sheet) = 1 + idx
        /\ \A k \in 1..idx : BelongsTo(RowOf(k), urlSettings[k])
        /\ psiPc = "done" => Len(sheet) = 1 + Len(urlSettings)

C27_Witness ==
    /\ psiPc = "done"
    /\ thrown = "none"
    /\ rowsBefore > 1 + Len(urlSettings)
    /\ Len(sheet) = 1 + Len(urlSettings)

\* a key of white space only, the empty key included
BlankKey == \A i \in 1..Len(psiApiKey) : psiApiKey[i] \in {" ", "\t", "\n"}

\* C26: with a blank or whitespace-only PSI API key the only step of
\* runPSITests shows the alert and throws the error of getPsiApiKey; no
\* request is issued and the results sheet stays exactly as it was.
C26_BlankKeyStopsRun ==
    [][BlankKey =>
          /\ psiPc = "start"
          /\ psiPc' = "threw"
          /\ alerts' = Append(alerts,
                          "Please enter your PSI API Key in Configuration")
          /\ thrown' = "Error: The PSI API key must be set to use this tool."
          /\ requests' = <<>>
          /\ responses' = <<>>
          /\ sheet' = sheet]_vars

C26_Witness ==
    /\ psiPc = "threw"
    /\ psiApiKey # <<>>
    /\ BlankKey
    /\ Len(alerts) = 1
    /\ Len(sheet) > 1
    /\ requests = <<>>

\* C28: the type written for a successful row is NONE exactly when the
\* response has no field metrics, ORIGIN exactly when it has field metrics
\* and the origin-fallback flag, PAGE otherwise; the object parseResults
\* returned never has origin_fallback set with crux_data unset, not even for
\* a response that carries the flag without field metrics.
C28_FieldDataType ==
    /\ \A k \in 1..Len(responses) :
          (Processed(k) /\ IsSuccess(k)) =>
              LET le == ContentOf(k).loadingExperience
                  flag == "origin_fallback" \in DOMAIN le /\ le.origin_fallback
                  type == RowOf(k).cells[5]
              IN /\ type \in {Str(<<"NONE">>), Str(<<"ORIGIN">>), Str(<<"PAGE">>)}
                 /\ type = Str(<<"NONE">>) <=> ~HasFieldData(k)
                 /\ type = Str(<<"ORIGIN">>) <=> (HasFieldData(k) /\ flag)
                 /\ type = Str(<<"PAGE">>) <=> (HasFieldData(k) /\ ~flag)
    /\ allResults.origin_fallback => allResults.crux_data
    /\ (psiPc \in {"loop", "done"} /\ idx >= 1 /\ IsSuccess(idx))
          => allResults.crux_data = HasFieldData(idx)

C28_Witness ==
    /\ psiPc \in {"loop", "done"}
    /\ idx >= 1
    /\ IsSuccess(idx)
    /\ ~HasFieldData(idx)
    /\ "origin_fallback" \in DOMAIN ContentOf(idx).loadingExperience
    /\ RowOf(idx).cells[5] = Str(<<"NONE">>)
    /\ ~allResults.origin_fallback

----------------------------------------------------------------------------
(* Properties of getTemplateLayoutId                                       *)

\* the name the call has to match: the argument when one was passed, else
\* the configured LAYOUT_NAME
WantedName == IF layoutName # NullString THEN layoutName ELSE LAYOUT_NAME

\* the positions of the layouts that carry the wanted displayName
Candidates == {i \in 1..Len(layouts) : layouts[i].displayName = WantedName}

\* C20: getTemplateLayoutId returns the objectId of the first layout whose
\* displayName equals the name to match (the layoutName argument when given,
\* else the LAYOUT_NAME property), throws when no layout has that
\* displayName, and never returns the id of a layout with another
\* displayName.
C20_FirstMatchingLayout ==
    /\ lyPc = "returned" =>
          /\ Candidates # {}
          /\ \E i \in Candidates :
                /\ \A j \in Candidates : i <= j
                /\ layoutId = layouts[i].objectId
          /\ \A i \in 1..Len(layouts) :
                layouts[i].objectId = layoutId
                    => layouts[i].displayName = WantedName
    /\ lyPc = "threw" => Candidates = {}
    /\ lyPc \in {"returned", "threw"} => (Candidates = {} <=> lyPc = "threw")

C20_Witness ==
    /\ lyPc = "returned"
    /\ layoutName = NullString
    /\ Cardinality(Candidates) >= 2
    /\ 1 \notin Candidates

----------------------------------------------------------------------------
(* Properties of getFunctionByName, isValidImageUrl and truncateUrl        *)

\* the text consists of one or more ASCII letters and digits
OnlyLettersAndDigits(text) ==
    /\ Len(text) >= 1
    /\ \A i \in 1..Len(text) :
          text[i] \in LowerCaseLetters \cup UpperCaseLetters \cup Digits

\* C21: for a name of one or more ASCII letters and digits that is bound in
\* the global scope getFunctionByName returns the function bound to it; for
\* every other name (empty, or with any other character) it throws
\* Error('Function name not alphanumeric') and nothing has been handed to
\* new Function.
C21_AlphanumericNamesOnly ==
    called = "getFunctionByName" =>
        IF OnlyLettersAndDigits(argument)
        THEN argument \in GlobalNames =>
                 /\ raised = "none"
                 /\ returned = FunctionValue(argument)
        ELSE /\ raised = "Error: Function name not alphanumeric"
             /\ returned = <<"undefined", <<>>>>
             /\ evaluated = <<>>

C21_Witness ==
    /\ called = "getFunctionByName"
    /\ argument \in GlobalNames
    /\ ~OnlyLettersAndDigits(argument)
    /\ raised = "Error: Function name not alphanumeric"
    /\ evaluated = <<>>

C30_TruncatedBelowMaximum ==
    called = "truncateUrl" =>
        LET result == returned[2]
        IN IF Len(argument) < 64
           THEN result = argument
           ELSE /\ Len(result) >= 3
                /\ SubSeq(result, Len(result) - 2, Len(result)) = <<".", ".", ".">>
                /\ Len(result) < 64

----------------------------------------------------------------------------
(* Properties of customDataInjection                                       *)

\* the rows of the sheet below its header
SheetEntries == Tail(dictionarySheet)

\* how many rows come before the first row with an empty search key
RowsBeforeGap ==
    LET gaps == {i \in 1..Len(SheetEntries) : SheetEntries[i][1] = Str(<<>>)}
    IN IF gaps = {} THEN Len(SheetEntries)
       ELSE (CHOOSE i \in gaps : \A j \in gaps : i <= j) - 1

----------------------------------------------------------------------------
(* Properties of loadConfiguration                                         *)

\* the named range is missing or, in the web variant, has fewer than 16 rows
RangeUnusable ==
    \/ ~configRange.found
    \/ variant = "web" /\ Len(configRange.values) < 16

\* C29: when the named range is missing, or in the web variant has fewer
\* than NUM_PROPERTIES rows, loadConfiguration throws, and no document
\* property is written or changed by the call; it throws in no other case.
C29_AllOrNothing ==
    /\ RangeUnusable =>
          /\ properties = propertiesBefore
          /\ cfgPc \in {"call", "threw"}
          /\ cfgPc = "threw" => configError # "none"
    /\ cfgPc = "threw" => RangeUnusable

C29_Witness ==
    /\ cfgPc = "threw"
    /\ variant = "web"
    /\ configRange.found
    /\ Len(configRange.values) = 15
    /\ \E k \in ConfigKeys : propertiesBefore[k] # NullString

----------------------------------------------------------------------------
(* Properties of retrieveImage                                             *)

\* C24 (as claimed): when the search returned several image files for the
\* criteria, retrieveImage returns the last of them and has shown the
\* multiple-images warning.
C24_LastOfSeveral ==
    (imgPc = "done" /\ Len(matches) >= 2) =>
        /\ file = <<"file", matches[Len(matches)].id>>
        /\ toasts = <<<<WARNING_MULTIPLE_IMAGES, criteriaId>>>>

----------------------------------------------------------------------------
(* Properties of createDeckFromDatasource                                  *)

\* the table slides all sections of this execution ask for
RECURSIVE PagesOf(_)
PagesOf(sections) ==
    IF sections = <<>> THEN 0 ELSE Head(sections) + PagesOf(Tail(sections))

\* rs holds, table after table in the order of ts, the six column-width
\* requests and the header-background request of that table
StyleRequestsOf(rs, ts) ==
    /\ Len(rs) = 7 * Len(ts)
    /\ \A k \in 1..Len(rs) :
          LET t == ts[((k - 1) \div 7) + 1]
              i == (k - 1) % 7
          IN IF i < 6
             THEN rs[k] = <<"updateTableColumnProperties", t, i,
                            <<50, 50, 75, 250, 75, 180>>[i + 1]>>
             ELSE rs[k] = <<"updateTableCellProperties", t, 0, 6>>

\* C23: every execution of createDeckFromDatasource starts its stored list
\* of requests anew, so that from then on the list holds exactly the style
\* requests of the tables created in this execution; nothing is applied
\* before all table slides of all sections exist, and the batch that is
\* applied is exactly that list.
C23_RequestsOfThisExecution ==
    /\ deckPc \in {"sections", "done", "failed"} =>
          /\ SLIDES_REQUESTS[1] = "json"
          /\ StyleRequestsOf(SLIDES_REQUESTS[2], tables)
    /\ deckPc # "done" => applied = <<"nothing", <<>>>>
    /\ deckPc = "done" =>
          /\ Len(tables) = PagesOf(auditSheets)
          /\ applied[1] = "requests"
          /\ StyleRequestsOf(applied[2], tables)

C23_Witness ==
    /\ deckPc = "done"
    /\ executions >= 2
    /\ requestsBefore[1] = "json"
    /\ requestsBefore[2] # <<>>
    /\ Len(auditSheets) >= 2
    /\ Len(tables) >= 2
    /\ Len(applied[2]) = 7 * Len(tables)

====
